---- MODULE Spec2Model ----
(***************************************************************************)
(* Model of the ALOSI adaptive engine (alosi/engine.py): the pure numeric  *)
(* routines and the engine facade BaseAlosiAdaptiveEngine running against  *)
(* an in-memory storage backend.                                           *)
(*                                                                         *)
(* Numbers.  numpy float arrays are modelled by exact arithmetic over the  *)
(* rationals extended with NaN, +Inf and -Inf (IEEE propagation rules).    *)
(* EPSILON = 1e-10 does not fit a 32 bit integer, so an integer is kept as *)
(* a polynomial in E = 1/EPSILON = 10^10 with integer coefficients         *)
(* <<c0, c1, ...>> = c0 + c1*E + ...; every coefficient is below 2^31 in   *)
(* absolute value, hence below E/2, so the representation is the unique    *)
(* balanced base-E expansion and the sign of a polynomial is the sign of   *)
(* its leading coefficient.                                                *)
(*                                                                         *)
(* Logarithms.  A value y = -log(x) is kept as x itself ("log-encoded"):   *)
(* y1 + y2 is x1 * x2, c * y is x^c for an integer c, and y1 < y2 iff      *)
(* x1 > x2.  Scores are integers, which makes this encoding exact.         *)
(***************************************************************************)
EXTENDS Integers, Sequences, FiniteSets, TLC

(***************************************************************************)
(* Bounds of the model                                                     *)
(***************************************************************************)
NumLearners == 2
NumActs == 2
NumKCs == 1
MaxCalls == 2
MaxInFlight == 2
MaxAttempts == 2

Learners == 0..(NumLearners - 1)
Acts == 0..(NumActs - 1)
KCs == 0..(NumKCs - 1)

(***************************************************************************)
(* Integer polynomials in E                                                *)
(***************************************************************************)
Max(a, b) == IF a >= b THEN a ELSE b
Abs(a) == IF a >= 0 THEN a ELSE -a

RECURSIVE GCD(_, _)
GCD(a, b) == IF b = 0 THEN a ELSE GCD(b, a % b)

RECURSIVE PStrip(_)
PStrip(p) ==
    IF Len(p) = 0 THEN <<>>
    ELSE IF p[Len(p)] = 0 THEN PStrip(SubSeq(p, 1, Len(p) - 1))
    ELSE p

PCoef(p, i) == IF i >= 1 /\ i <= Len(p) THEN p[i] ELSE 0

PAdd(p, q) == PStrip([i \in 1..Max(Len(p), Len(q)) |-> PCoef(p, i) + PCoef(q, i)])

PScale(c, p) == PStrip([i \in 1..Len(p) |-> c * p[i]])

PNeg(p) == PScale(-1, p)

RECURSIVE PConv(_, _, _, _)
PConv(p, q, i, j) ==
    IF j > Len(p) THEN 0 ELSE p[j] * PCoef(q, i - j + 1) + PConv(p, q, i, j + 1)

PMul(p, q) ==
    IF Len(p) = 0 \/ Len(q) = 0 THEN <<>>
    ELSE [i \in 1..(Len(p) + Len(q) - 1) |-> PConv(p, q, i, 1)]

PSign(p) == IF Len(p) = 0 THEN 0 ELSE IF p[Len(p)] > 0 THEN 1 ELSE -1

RECURSIVE PContent(_)
PContent(p) == IF Len(p) = 0 THEN 0 ELSE GCD(Abs(p[1]), PContent(Tail(p)))

PDivInt(p, g) == [i \in 1..Len(p) |-> p[i] \div g]

RECURSIVE PLowZeros(_)
PLowZeros(p) == IF Len(p) = 0 \/ p[1] # 0 THEN 0 ELSE 1 + PLowZeros(Tail(p))

Min(a, b) == IF a <= b THEN a ELSE b

(***************************************************************************)
(* Extended rationals: [k, n, d] with k the kind, n/d the finite value     *)
(***************************************************************************)
NaN == [k |-> "nan", n |-> <<>>, d |-> <<1>>]
PInf == [k |-> "inf", n |-> <<1>>, d |-> <<1>>]
NInf == [k |-> "inf", n |-> <<-1>>, d |-> <<1>>]

\* a fraction of polynomials in lowest terms: positive denominator, common
\* powers of E and the common integer factor removed
MkFinReduced(n2, d2, g) == [k |-> "fin", n |-> PDivInt(n2, g), d |-> PDivInt(d2, g)]

MkFinShifted(n2, d2) == MkFinReduced(n2, d2, GCD(PContent(n2), PContent(d2)))

MkFinShift(n1, d1, z) ==
    MkFinShifted(SubSeq(n1, z + 1, Len(n1)), SubSeq(d1, z + 1, Len(d1)))

MkFinSigned(n1, d1) ==
    IF Len(n1) = 0 THEN [k |-> "fin", n |-> <<>>, d |-> <<1>>]
    ELSE MkFinShift(n1, d1, Min(PLowZeros(n1), PLowZeros(d1)))

MkFin(n0, d0) ==
    IF PSign(d0) < 0 THEN MkFinSigned(PNeg(n0), PNeg(d0))
    ELSE MkFinSigned(PStrip(n0), PStrip(d0))

Rat(a, b) == MkFin(<<a>>, <<b>>)
Zero == Rat(0, 1)
One == Rat(1, 1)

isnan(x) == x.k = "nan"
isinf(x) == x.k = "inf"
isposinf(x) == x.k = "inf" /\ PSign(x.n) > 0
IsFin(x) == x.k = "fin"
Sgn(x) == PSign(x.n)

Neg(x) == IF isnan(x) THEN NaN ELSE [x EXCEPT !.n = PNeg(x.n)]

Add(x, y) ==
    IF isnan(x) \/ isnan(y) THEN NaN
    ELSE IF isinf(x) THEN (IF isinf(y) /\ Sgn(y) # Sgn(x) THEN NaN ELSE x)
    ELSE IF isinf(y) THEN y
    ELSE IF x.d = y.d THEN MkFin(PAdd(x.n, y.n), x.d)
    ELSE MkFin(PAdd(PMul(x.n, y.d), PMul(y.n, x.d)), PMul(x.d, y.d))

Sub(x, y) == Add(x, Neg(y))

Mul(x, y) ==
    IF isnan(x) \/ isnan(y) THEN NaN
    ELSE IF isinf(x) \/ isinf(y)
         THEN (IF Sgn(x) * Sgn(y) = 0 THEN NaN
               ELSE IF Sgn(x) * Sgn(y) > 0 THEN PInf ELSE NInf)
    ELSE MkFin(PMul(x.n, y.n), PMul(x.d, y.d))

Div(x, y) ==
    IF isnan(x) \/ isnan(y) THEN NaN
    ELSE IF isinf(y) THEN (IF isinf(x) THEN NaN ELSE Zero)
    ELSE IF Sgn(y) = 0
         THEN (IF Sgn(x) = 0 THEN NaN ELSE IF Sgn(x) > 0 THEN PInf ELSE NInf)
    ELSE IF isinf(x) THEN (IF Sgn(x) * Sgn(y) > 0 THEN PInf ELSE NInf)
    ELSE MkFin(PMul(x.n, y.d), PMul(x.d, y.n))

\* sign of x - y for finite x, y
CmpFin(x, y) == PSign(PAdd(PMul(x.n, y.d), PNeg(PMul(y.n, x.d))))

Lt(x, y) ==
    IF isnan(x) \/ isnan(y) THEN FALSE
    ELSE IF isinf(x) THEN Sgn(x) < 0 /\ ~(isinf(y) /\ Sgn(y) < 0)
    ELSE IF isinf(y) THEN Sgn(y) > 0
    ELSE CmpFin(x, y) < 0

Eq(x, y) ==
    IF isnan(x) \/ isnan(y) THEN FALSE
    ELSE IF isinf(x) \/ isinf(y) THEN isinf(x) /\ isinf(y) /\ Sgn(x) = Sgn(y)
    ELSE CmpFin(x, y) = 0

Le(x, y) == Lt(x, y) \/ Eq(x, y)
Gt(x, y) == Lt(y, x)
Ge(x, y) == Le(y, x)

minimum(x, y) == IF isnan(x) \/ isnan(y) THEN NaN ELSE IF Lt(y, x) THEN y ELSE x
maximum(x, y) == IF isnan(x) \/ isnan(y) THEN NaN ELSE IF Lt(x, y) THEN y ELSE x

\* np.power(x, s) for an integer exponent s in -1..2; pow(x, 0) is 1 for every x
power(x, s) ==
    IF s = 0 THEN One
    ELSE IF s = 1 THEN x
    ELSE IF s = 2 THEN Mul(x, x)
    ELSE Div(One, x)

EPSILON == MkFin(<<1>>, <<0, 1>>)

(***************************************************************************)
(* Log-encoded values: the number e stands for the float -log(e)           *)
(***************************************************************************)
\* -np.log(x): NaN for NaN and for negative x
NegLog(x) == IF isnan(x) \/ Sgn(x) < 0 THEN NaN ELSE x

\* y1 + y2 on log-encoded values
LAdd(a, b) == Mul(a, b)

\* c * y for a plain integer c and a log-encoded y
LScale(c, a) ==
    IF isnan(a) THEN NaN
    ELSE IF c = 0 THEN (IF IsFin(a) /\ Sgn(a) > 0 THEN One ELSE NaN)
    ELSE power(a, c)

\* y1 < y2 and y1 == y2 on log-encoded values
LLt(a, b) == Gt(a, b)
LEq(a, b) == Eq(a, b)

\* the log-encoded zero
LZero == One

(***************************************************************************)
(* Arrays are functions from an index set to numbers; a matrix is indexed  *)
(* by <<row, column>>.                                                     *)
(***************************************************************************)
Row(m, q) == [k \in KCs |-> m[q, k]]

None == [none |-> TRUE, a |-> <<>>]
Some(a) == [none |-> FALSE, a |-> a]
Scalar(v) == [isscalar |-> TRUE, v |-> v]
Array(a) == [isscalar |-> FALSE, v |-> a]

\* variant of fillna that replaces the NaN entries only
fillna_nan_only(x, value, inplace) ==
    LET filled == [i \in DOMAIN x |->
                      IF isnan(x[i])
                      THEN (IF value.isscalar THEN value.v ELSE value.v[i])
                      ELSE x[i]]
    IN  IF inplace THEN [x |-> x, ret |-> None] ELSE [x |-> filled, ret |-> Some(filled)]

\* engine.py fillna: x is the caller's array after the call, ret the return value
fillna(x, value, inplace) ==
    LET ind_to_replace == {i \in DOMAIN x : isnan(x[i]) \/ isinf(x[i])}
        filled == [i \in DOMAIN x |->
                      IF i \in ind_to_replace
                      THEN (IF value.isscalar THEN value.v ELSE value.v[i])
                      ELSE x[i]]
    IN  IF inplace
        THEN \* output = x.copy(): the copy is filled and dropped
             [x |-> x, ret |-> None]
        ELSE \* output = x: the caller's array is filled
             [x |-> filled, ret |-> Some(filled)]

\* p / (1 - p)
odds_ratio(p) == Div(p, Sub(One, p))

\* engine.py odds
odds(p, epsilon) == odds_ratio(minimum(maximum(p, epsilon), Sub(One, epsilon)))

\* engine.py calculate_relevance_from_odds (log-encoded result)
calculate_relevance_from_odds(guess_odds, slip_odds) ==
    LAdd(NegLog(guess_odds), NegLog(slip_odds))

\* engine.py calculate_relevance (log-encoded result)
calculate_relevance(guess, slip) ==
    LAdd(NegLog(odds(guess, EPSILON)), NegLog(odds(slip, EPSILON)))

\* engine.py x0_mult
x0_mult(guess, slip) == Div(Mul(slip, Add(One, guess)), Add(One, slip))

\* variant of x1_0_mult without the division by x0_mult
x1_0_mult_undivided(guess, slip) == Div(Add(One, guess), Mul(guess, Add(One, slip)))

\* engine.py x1_0_mult
x1_0_mult(guess, slip) ==
    Div(Div(Add(One, guess), Mul(guess, Add(One, slip))), x0_mult(guess, slip))

\* L += transit * (L + 1)
mastery_transfer(L, transit) == Add(L, Mul(transit, Add(L, One)))

\* L[np.where(np.isposinf(L))] = 1.0 / epsilon
mastery_clean_inf(L, epsilon) == IF isposinf(L) THEN Div(One, epsilon) ELSE L

\* L[np.where(L == 0.0)] = epsilon
mastery_clean_zero(L, epsilon) == IF Eq(L, Zero) THEN epsilon ELSE L

\* variant of calculate_mastery_update that raises x1_0_mult to 1 - score
calculate_mastery_update_inverted(mastery, score, guess, slip, transit, epsilon) ==
    [k \in KCs |->
        mastery_clean_zero(
            mastery_clean_inf(
                mastery_transfer(
                    Mul(mastery[k], Mul(x0_mult(guess[k], slip[k]),
                                        power(x1_0_mult(guess[k], slip[k]), 1 - score))),
                    transit[k]),
                epsilon),
            epsilon)]

\* engine.py calculate_mastery_update; all arguments but score are K-vectors
calculate_mastery_update(mastery, score, guess, slip, transit, epsilon) ==
    [k \in KCs |->
        mastery_clean_zero(
            mastery_clean_inf(
                mastery_transfer(
                    Mul(mastery[k], Mul(x0_mult(guess[k], slip[k]),
                                        power(x1_0_mult(guess[k], slip[k]), score))),
                    transit[k]),
                epsilon),
            epsilon)]

(***************************************************************************)
(* Knowledge inference and the parameter estimator.  A score record is a   *)
(* row <<learner, activity, score>> (columns 0, 1, 2 of the source's       *)
(* array); rows of a table are numbered from 1, activities from 0.         *)
(***************************************************************************)
RECURSIVE SumFn(_)
SumFn(f) ==
    IF DOMAIN f = {} THEN Zero
    ELSE LET i == CHOOSE j \in DOMAIN f : TRUE
         IN  Add(f[i], SumFn([j \in (DOMAIN f) \ {i} |-> f[j]]))

\* np.dot(c, m)[k] for integer weights c and a log-encoded matrix m
RECURSIVE LDot(_, _, _, _)
LDot(c, m, k, i) ==
    IF i > Len(c) THEN LZero
    ELSE LAdd(LScale(c[i], m[i, k]), LDot(c, m, k, i + 1))

\* Python's builtin min over z[0..N, k]: keeps the first element unless a
\* later one compares smaller (a comparison with NaN is false)
RECURSIVE PyMin(_, _, _, _, _)
PyMin(z, k, N, n, m) ==
    IF n > N THEN m
    ELSE PyMin(z, k, N, n + 1, IF LLt(z[n, k], m) THEN z[n, k] ELSE m)

\* engine.py knowledge, the table z: row n holds the log-likelihood that the
\* skill was acquired after the first n attempts
knowledge_z(scores, guess, slip) ==
    LET N == Len(scores)
        activity_idxs == [i \in 1..N |-> scores[i][2]]
        m_guess_u == [i \in 1..N, k \in KCs |-> NegLog(guess[activity_idxs[i], k])]
        m_slip_u == [i \in 1..N, k \in KCs |-> NegLog(slip[activity_idxs[i], k])]
        correctness == [i \in 1..N |-> scores[i][3]]
        incorrect == [i \in 1..N |-> 1 - correctness[i]]
        x(n) == [i \in 1..N |-> IF i <= n THEN correctness[i] ELSE incorrect[i]]
        temp(n) == [i \in 1..N, k \in KCs |->
                       IF i <= n THEN m_guess_u[i, k] ELSE m_slip_u[i, k]]
    IN  [n \in 0..N, k \in KCs |->
            IF n = N THEN LDot(correctness, m_guess_u, k, 1)
            ELSE IF n = 0 THEN LDot(incorrect, m_slip_u, k, 1)
            ELSE LDot(x(n), temp(n), k, 1)]

\* variant of knowledge_ind that keeps only the first row that attains the
\* minimum, as np.argmin does
knowledge_ind_first(N, z) ==
    [k \in KCs |->
        {n \in 0..N : /\ LEq(z[n, k], PyMin(z, k, N, 1, z[0, k]))
                      /\ \A m \in 0..(n - 1) : ~LEq(z[m, k], PyMin(z, k, N, 1, z[0, k]))}]

\* engine.py knowledge, ind: the rows of z that attain the minimum of column k
knowledge_ind(N, z) ==
    [k \in KCs |-> {n \in 0..N : LEq(z[n, k], PyMin(z, k, N, 1, z[0, k]))}]

\* variant of knowledge_knowl whose step for row n marks the attempts before
\* n instead of those from n on
knowledge_knowl_before(N, ind) ==
    [i \in 1..N, k \in KCs |->
        Div(Rat(Cardinality({n \in ind[k] : n = 0 \/ (n < N /\ n > i - 1)}), 1),
            Rat(Cardinality(ind[k]), 1))]

\* engine.py knowledge, knowl: the average over the rows of ind
knowledge_knowl(N, ind) ==
    [i \in 1..N, k \in KCs |->
        Div(Rat(Cardinality({n \in ind[k] : n = 0 \/ (n < N /\ n <= i - 1)}), 1),
            Rat(Cardinality(ind[k]), 1))]

\* engine.py knowledge; scores are the rows of one learner
knowledge(scores, guess, slip) ==
    knowledge_knowl(Len(scores), knowledge_ind(Len(scores), knowledge_z(scores, guess, slip)))

\* a numpy boolean used in arithmetic
B(b) == IF b THEN One ELSE Zero

\* engine.py estimate, per learner: the rows selected for the learner, the
\* thresholded relevances and the inferred knowledge
estimate_users(score_records, current_guess, current_slip, relevance_threshold) ==
    LET zeros == [q \in Acts, k \in KCs |-> Zero]
        \* the relevance is computed from the fresh accumulators guess and slip
        m_k == [q \in Acts, k \in KCs |-> calculate_relevance(zeros[q, k], zeros[q, k])]
        learners == {score_records[i][1] : i \in 1..Len(score_records)}
        \* the rows are selected by comparing the activity column with the learner
        user_score_records == [u \in learners |->
                                  SelectSeq(score_records, LAMBDA r : r[2] = u)]
        J == [u \in learners |-> Len(user_score_records[u])]
        act == [u \in learners |-> [j \in 1..J[u] |-> user_score_records[u][j][2]]]
        active == {u \in learners : J[u] # 0}
    IN  [active |-> active,
         J |-> J,
         act |-> act,
         sc |-> [u \in learners |-> [j \in 1..J[u] |-> Rat(user_score_records[u][j][3], 1)]],
         u_R |-> [u \in active |-> [k \in KCs |->
                     B(Lt(LDot([j \in 1..J[u] |-> 1],
                               [j \in 1..J[u], kk \in KCs |-> m_k[act[u][j], kk]], k, 1),
                          relevance_threshold))]],
         m_k_u |-> [u \in active |-> [j \in 1..J[u], k \in KCs |->
                       B(Lt(m_k[act[u][j], k], relevance_threshold))]],
         u_knowledge |-> [u \in active |->
                            knowledge(user_score_records[u], current_guess, current_slip)],
         attempts |-> {<<u, j>> : u \in active, j \in 1..Len(score_records)}]

\* engine.py estimate, the loops: numerators and denominators summed over the
\* learners u and their attempts a = <<u, j>>
estimate_sums(U) ==
    LET att(q) == {a \in U.attempts : a[2] <= U.J[a[1]] /\ U.act[a[1]][a[2]] = q}
        tatt(q) == {a \in att(q) : a[2] < U.J[a[1]]}
        sh(a, k) == Mul(U.m_k_u[a[1]][a[2], k], Sub(One, U.u_knowledge[a[1]][a[2], k]))
        sh2(a, k) == Sub(U.m_k_u[a[1]][a[2], k], sh(a, k))
    IN  [p_i |-> [k \in KCs |->
                     SumFn([u \in U.active |-> Mul(U.u_knowledge[u][1, k], U.u_R[u][k])])],
         p_i_denom |-> [k \in KCs |-> SumFn([u \in U.active |-> U.u_R[u][k]])],
         guess |-> [q \in Acts, k \in KCs |->
                       SumFn([a \in att(q) |-> Mul(sh(a, k), U.sc[a[1]][a[2]])])],
         guess_denom |-> [q \in Acts, k \in KCs |-> SumFn([a \in att(q) |-> sh(a, k)])],
         slip |-> [q \in Acts, k \in KCs |->
                      SumFn([a \in att(q) |-> Mul(sh2(a, k), Sub(One, U.sc[a[1]][a[2]]))])],
         slip_denom |-> [q \in Acts, k \in KCs |-> SumFn([a \in att(q) |-> sh2(a, k)])],
         trans |-> [q \in Acts, k \in KCs |->
                       SumFn([a \in tatt(q) |->
                                 Mul(sh(a, k), U.u_knowledge[a[1]][a[2] + 1, k])])],
         trans_denom |-> [q \in Acts, k \in KCs |-> SumFn([a \in tatt(q) |-> sh(a, k)])]]

\* v[ind] /= den[ind] with ind = np.where(den != 0)
estimate_norm(v, den) ==
    [i \in DOMAIN v |-> IF ~Eq(den[i], Zero) THEN Div(v[i], den[i]) ELSE v[i]]

\* v[(den < information_threshold) | (den == 0)] = np.nan
estimate_cut(v, den, information_threshold) ==
    [i \in DOMAIN v |->
        IF Lt(den[i], information_threshold) \/ Eq(den[i], Zero) THEN NaN ELSE v[i]]

\* engine.py estimate: normalise over users, then NaN below the information cutoff
estimate_normalize(S, information_threshold) ==
    [p_i |-> estimate_cut(estimate_norm(S.p_i, S.p_i_denom), S.p_i_denom,
                          information_threshold),
     trans |-> estimate_cut(estimate_norm(S.trans, S.trans_denom), S.trans_denom,
                            information_threshold),
     guess |-> estimate_cut(estimate_norm(S.guess, S.guess_denom), S.guess_denom,
                            information_threshold),
     slip |-> estimate_cut(estimate_norm(S.slip, S.slip_denom), S.slip_denom,
                           information_threshold)]

\* variant of estimate_degeneracy that removes only the probabilities of 0.5
\* and above, without the test on guess + slip
estimate_degeneracy_halves_only(S, remove_degeneracy) ==
    [p_i |-> S.p_i,
     trans |-> S.trans,
     guess |-> [i \in DOMAIN S.guess |->
                   IF remove_degeneracy /\ Ge(S.guess[i], Rat(1, 2)) THEN NaN ELSE S.guess[i]],
     slip |-> [i \in DOMAIN S.slip |->
                  IF remove_degeneracy /\ Ge(S.slip[i], Rat(1, 2)) THEN NaN ELSE S.slip[i]]]

\* engine.py estimate: remove guess and slip probabilities of 0.5 and above
estimate_degeneracy(S, remove_degeneracy) ==
    LET half == Rat(1, 2)
        ind_g == {i \in DOMAIN S.guess :
                     Ge(S.guess[i], half) \/ Ge(Add(S.guess[i], S.slip[i]), One)}
        ind_s == {i \in DOMAIN S.slip :
                     Ge(S.slip[i], half) \/ Ge(Add(S.guess[i], S.slip[i]), One)}
    IN  [p_i |-> S.p_i,
         trans |-> S.trans,
         guess |-> [i \in DOMAIN S.guess |->
                       IF remove_degeneracy /\ i \in ind_g THEN NaN ELSE S.guess[i]],
         slip |-> [i \in DOMAIN S.slip |->
                      IF remove_degeneracy /\ i \in ind_s THEN NaN ELSE S.slip[i]]]

\* engine.py estimate: convert to odds
estimate_odds(S) ==
    [L |-> [k \in KCs |-> odds(S.p_i[k], EPSILON)],
     trans |-> [i \in DOMAIN S.trans |-> odds(S.trans[i], EPSILON)],
     guess |-> [i \in DOMAIN S.guess |-> odds(S.guess[i], EPSILON)],
     slip |-> [i \in DOMAIN S.slip |-> odds(S.slip[i], EPSILON)]]

\* engine.py estimate: replace invalid values by the existing ones and return
estimate_return(O, current_guess, current_slip, current_transit, mastery_prior) ==
    [L_i |-> fillna(O.L, Array(mastery_prior), TRUE).x,
     trans |-> fillna(O.trans, Array(current_transit), TRUE).x,
     guess |-> fillna(O.guess, Array(current_guess), TRUE).x,
     slip |-> fillna(O.slip, Array(current_slip), TRUE).x,
     L_i_nan |-> O.L,
     trans_nan |-> O.trans,
     guess_nan |-> O.guess,
     slip_nan |-> O.slip]

\* engine.py estimate; relevance_threshold is log-encoded
estimate(score_records, current_guess, current_slip, current_transit, mastery_prior, relevance_threshold, information_threshold, remove_degeneracy) ==
    estimate_return(
        estimate_odds(
            estimate_degeneracy(
                estimate_normalize(
                    estimate_sums(
                        estimate_users(score_records, current_guess, current_slip,
                                       relevance_threshold)),
                    information_threshold),
                remove_degeneracy)),
        current_guess, current_slip, current_transit, mastery_prior)

(***************************************************************************)
(* Recommendation scorer.  relevance is a Q x K matrix of plain numbers.   *)
(***************************************************************************)
\* the integer square root of a perfect square
ISqrt(n) == CHOOSE r \in 0..n : r * r = n

\* np.sqrt, on the rationals whose numerator and denominator are squares
sqrt(x) ==
    IF isnan(x) \/ Sgn(x) < 0 THEN NaN
    ELSE IF isinf(x) THEN PInf
    ELSE IF Sgn(x) = 0 THEN Zero
    ELSE Rat(ISqrt(x.n[1]), ISqrt(x.d[1]))

AbsNum(x) == IF ~isnan(x) /\ Sgn(x) < 0 THEN Neg(x) ELSE x

\* np.dot(M, v)[q] for a Q x K matrix M and a K-vector v
MatVec(M, v, q) == SumFn([k \in KCs |-> Mul(M[q, k], v[k])])

\* variant of recommendation_score_P that subtracts L_star after the mastery
\* has been propagated through the prerequisite matrix
recommendation_score_P_late_threshold(relevance, learner_mastery_odds, prereqs, r_star, L_star) ==
    LET m_w == fillna(prereqs, Scalar(Zero), FALSE).x
        m_r == [k \in KCs |->
                   minimum(Sub(SumFn([j \in KCs |-> Mul(learner_mastery_odds[j], m_w[j, k])]),
                               L_star),
                           Zero)]
        v == [k \in KCs |-> minimum(Add(m_r[k], r_star), Zero)]
    IN  [P |-> [q \in Acts |-> MatVec(relevance, v, q)], prereqs |-> m_w]

\* engine.py recommendation_score_P; prereqs is the caller's array after the call
recommendation_score_P(relevance, learner_mastery_odds, prereqs, r_star, L_star) ==
    LET m_w == fillna(prereqs, Scalar(Zero), FALSE).x
        m_r == [k \in KCs |->
                   SumFn([j \in KCs |->
                             Mul(minimum(Sub(learner_mastery_odds[j], L_star), Zero),
                                 m_w[j, k])])]
        v == [k \in KCs |-> minimum(Add(m_r[k], r_star), Zero)]
    IN  [P |-> [q \in Acts |-> MatVec(relevance, v, q)], prereqs |-> m_w]

\* engine.py recommendation_score_R
recommendation_score_R(relevance, learner_mastery_odds, L_star) ==
    LET v == [k \in KCs |-> maximum(Sub(L_star, learner_mastery_odds[k]), Zero)]
    IN  [q \in Acts |-> MatVec(relevance, v, q)]

\* variant of recommendation_score_C that returns ones without a last attempt
recommendation_score_C_ones(relevance, last_attempted_relevance) ==
    IF last_attempted_relevance.none
    THEN [q \in Acts |-> One]
    ELSE [q \in Acts |-> sqrt(MatVec(relevance, last_attempted_relevance.a, q))]

\* engine.py recommendation_score_C
recommendation_score_C(relevance, last_attempted_relevance) ==
    IF last_attempted_relevance.none
    THEN [q \in Acts |-> Zero]
    ELSE [q \in Acts |-> sqrt(MatVec(relevance, last_attempted_relevance.a, q))]

\* engine.py recommendation_score_D
recommendation_score_D(relevance, learner_mastery_odds, difficulty) ==
    [q \in Acts |->
        Neg(SumFn([k \in KCs |->
                      Mul(relevance[q, k],
                          AbsNum(Sub(learner_mastery_odds[k], difficulty[q])))]))]

\* np.dot(weights, subscores) with subscores = [P, R, C, D] and
\* weights = [W_p, W_r, W_d, W_c]
recommendation_score_dot(P, R, C, D, W_p, W_r, W_d, W_c) ==
    LET subscores == <<P, R, C, D>>
        weights == <<W_p, W_r, W_d, W_c>>
    IN  [q \in Acts |-> SumFn([i \in 1..4 |-> Mul(weights[i], subscores[i][q])])]

\* the scores together with the subscores they are combined from
recommendation_score_out(Pp, R, C, D, W_p, W_r, W_d, W_c) ==
    [scores |-> recommendation_score_dot(Pp.P, R, C, D, W_p, W_r, W_d, W_c),
     P |-> Pp.P, R |-> R, C |-> C, D |-> D, prereqs |-> Pp.prereqs]

\* engine.py recommendation_score; prereqs is the caller's array after the call
recommendation_score(relevance, learner_mastery_odds, prereqs, r_star, L_star, difficulty, W_p, W_r, W_d, W_c, last_attempted_relevance) ==
    recommendation_score_out(
        recommendation_score_P(relevance, learner_mastery_odds, prereqs, r_star, L_star),
        recommendation_score_R(relevance, learner_mastery_odds, L_star),
        recommendation_score_C(relevance, last_attempted_relevance),
        recommendation_score_D(relevance, learner_mastery_odds, difficulty),
        W_p, W_r, W_d, W_c)

\* np.argmax: the first index of the maximum; the first NaN if there is one
argmax(v) ==
    LET nans == {q \in DOMAIN v : isnan(v[q])}
        tops == {q \in DOMAIN v : \A r \in DOMAIN v : Le(v[r], v[q])}
        first(S) == CHOOSE q \in S : \A r \in S : q <= r
    IN  IF nans # {} THEN first(nans) ELSE first(tops)

\* the keyword-only parameters of recommendation_score
ScoreParams == {"relevance", "learner_mastery_odds", "prereqs", "r_star", "L_star",
                "difficulty", "W_p", "W_r", "W_d", "W_c", "last_attempted_relevance"}
ScoreDefaults == {"last_attempted_relevance"}

\* f(**kwargs) binds iff every key names a parameter and no required one is missing
Binds(keys, params, defaults) == keys \subseteq params /\ (params \ defaults) \subseteq keys

(***************************************************************************)
(* State: the storage backend (in-memory arrays behind the reader/writer   *)
(* hooks of BaseAlosiAdaptiveEngine) and the calls in flight.  A call      *)
(* advances one storage hook at a time, so calls of concurrent callers     *)
(* interleave at the storage boundary.  When a call ends its locals are    *)
(* gone; what it returned or raised stays visible.                         *)
(***************************************************************************)
VARIABLES
    Guess,          \* Q x K guess odds
    Slip,           \* Q x K slip odds
    Transit,        \* Q x K transit odds
    MasteryPrior,   \* K mastery prior odds
    Mastery,        \* per learner, K mastery odds
    Scores,         \* score records, in order of arrival
    written,        \* history: number of writes to each parameter matrix and mastery row
    train,          \* the train call: position and locals
    upd,            \* the update_from_score calls: position and locals
    rec,            \* the recommend call: position and locals
    calls,          \* number of calls started
    cap,            \* number of calls the callers keep in flight at once
    sc,             \* a direct call of recommendation_score: inputs and result
    fn,             \* a direct call of odds or fillna: inputs and result
    pure            \* a direct call of calculate_mastery_update, knowledge or
                    \* estimate: inputs and result

vars == <<Guess, Slip, Transit, MasteryPrior, Mastery, Scores, written, train, upd, rec,
          calls, cap, sc, fn, pure>>
storage == <<Guess, Slip, Transit, MasteryPrior, Mastery, Scores>>
env == <<cap, sc, fn, pure>>

Updaters == 1..2
ScoreValues == {0, 1, 2}
InformationThresholds == {1, 20}
\* relevance_threshold=0.01, log-encoded: exp(-0.01) = 0.990..., taken as 99/100
RelevanceThresholdDefault == Rat(99, 100)

NoMatrix == [q \in Acts, k \in KCs |-> NaN]
NoVector == [k \in KCs |-> NaN]
NoParams == [L_i |-> NoVector, trans |-> NoMatrix, guess |-> NoMatrix, slip |-> NoMatrix,
             L_i_nan |-> NoVector, trans_nan |-> NoMatrix, guess_nan |-> NoMatrix,
             slip_nan |-> NoMatrix]

\* placeholder parameter values of the backend, odds 1/2 and 1/4: guess and
\* slip are the same for every activity, transit differs between activities
ParamTable == [q \in Acts, k \in KCs |-> IF k % 2 = 0 THEN Rat(1, 2) ELSE Rat(1, 4)]
TransitTable == [q \in Acts, k \in KCs |-> IF (q + k) % 2 = 0 THEN Rat(1, 2) ELSE Rat(1, 4)]
PriorTable == [k \in KCs |-> Rat(1, 10)]
\* stored mastery odds lie within [EPSILON, 1/EPSILON]: learner 0 is at the
\* upper end, the other learners are at the prior
MasteryTable == [u \in Learners |->
                    [k \in KCs |-> IF u = 0 THEN Div(One, EPSILON) ELSE PriorTable[k]]]

TrainIdle == [pc |-> "idle", information_threshold |-> Zero, mastery_prior |-> NoVector,
              scores |-> <<>>, guess |-> NoMatrix, slip |-> NoMatrix, transit |-> NoMatrix,
              new_params |-> NoParams, estimated |-> FALSE,
              pre |-> [guess |-> NoMatrix, slip |-> NoMatrix, transit |-> NoMatrix,
                       prior |-> NoVector]]
UpdIdle == [pc |-> "idle", learner |-> 0, activity |-> 0, score |-> 0,
            mastery |-> NoVector, guess |-> NoVector, slip |-> NoVector,
            transit |-> NoVector, new_mastery |-> NoVector,
            read_mastery |-> FALSE, wrote_mastery |-> FALSE, saved_score |-> FALSE,
            error |-> ""]
RecIdle == [pc |-> "idle", learner |-> 0, guess |-> NoMatrix, slip |-> NoMatrix,
            guess_written |-> -1, slip_written |-> -1, all_alike |-> FALSE,
            error |-> "", result |-> -1]

ScIdle == [pc |-> "idle", relevance |-> NoMatrix, learner_mastery_odds |-> NoVector,
           prereqs |-> [i \in KCs, j \in KCs |-> Zero], r_star |-> Zero, L_star |-> Zero,
           difficulty |-> [q \in Acts |-> Zero], W_p |-> Zero, W_r |-> Zero, W_d |-> Zero,
           W_c |-> Zero, last_attempted_relevance |-> None,
           out |-> [scores |-> [q \in Acts |-> Zero], P |-> [q \in Acts |-> Zero],
                    R |-> [q \in Acts |-> Zero], C |-> [q \in Acts |-> Zero],
                    D |-> [q \in Acts |-> Zero], prereqs |-> [i \in KCs, j \in KCs |-> Zero]]]

FnIdle == [pc |-> "idle", op |-> "", p |-> Zero, odds |-> Zero, error |-> "",
           x |-> [i \in Acts |-> Zero], x0 |-> [i \in Acts |-> Zero],
           value |-> Scalar(Zero), inplace |-> FALSE, ret |-> None]

PureIdle == [pc |-> "idle", op |-> "", mastery |-> NoVector, score |-> 0,
             guess_row |-> NoVector, slip_row |-> NoVector, transit_row |-> NoVector,
             new_mastery |-> NoVector, score_records |-> <<>>, guess |-> NoMatrix,
             slip |-> NoMatrix, transit |-> NoMatrix, mastery_prior |-> NoVector,
             information_threshold |-> Zero, remove_degeneracy |-> TRUE, knowl |-> <<>>,
             new_params |-> NoParams]

\* the engine as constructed, before any call
InitEngine ==
    /\ Guess = ParamTable
    /\ Slip = ParamTable
    /\ Transit = TransitTable
    /\ MasteryPrior = PriorTable
    /\ Mastery = MasteryTable
    /\ Scores = <<>>
    /\ written = [guess |-> 0, slip |-> 0, transit |-> 0, prior |-> 0,
                  mastery |-> [u \in Learners |-> 0]]
    /\ train = TrainIdle
    /\ upd = [i \in Updaters |-> UpdIdle]
    /\ rec = RecIdle
    /\ calls = 0

\* one caller: a call starts when the previous one has ended
Init ==
    /\ InitEngine
    /\ cap = 1
    /\ sc = ScIdle
    /\ fn = FnIdle
    /\ pure = PureIdle

\* concurrent callers
InitConc ==
    /\ InitEngine
    /\ cap = MaxInFlight
    /\ sc = ScIdle
    /\ fn = FnIdle
    /\ pure = PureIdle

Free(pc) == pc \in {"idle", "returned", "raised"}
InFlight == Cardinality({i \in Updaters : ~Free(upd[i].pc)})
                + (IF Free(train.pc) THEN 0 ELSE 1) + (IF Free(rec.pc) THEN 0 ELSE 1)
\* a caller may start a call
MayCall == calls < MaxCalls /\ InFlight < cap
\* the outcome of an ended call is kept until the next call starts
Rest(slot, idle) == IF Free(slot.pc) THEN idle ELSE slot

(***************************************************************************)
(* Storage hooks, as the in-memory backend implements them                 *)
(***************************************************************************)
\* activity=None, the default of get_guess, get_slip and get_transit
NoActivity == -1
get_guess(activity) == IF activity = NoActivity THEN Guess ELSE Row(Guess, activity)
get_slip(activity) == IF activity = NoActivity THEN Slip ELSE Row(Slip, activity)
get_transit(activity) == IF activity = NoActivity THEN Transit ELSE Row(Transit, activity)
get_mastery_prior == MasteryPrior
get_scores == Scores
get_learner_mastery(learner) == Mastery[learner]

\* variant of update_learner_mastery that assigns the vector to every row
update_learner_mastery_all_rows(learner, new_mastery) ==
    /\ Mastery' = [v \in Learners |-> new_mastery]
    /\ written' = [written EXCEPT !.mastery[learner] = @ + 1]
update_learner_mastery(learner, new_mastery) ==
    /\ Mastery' = [Mastery EXCEPT ![learner] = new_mastery]
    /\ written' = [written EXCEPT !.mastery[learner] = @ + 1]
\* variant of save_score that stacks the new record above the existing ones
save_score_on_top(learner, activity, score) ==
    Scores' = <<<<learner, activity, score>>>> \o Scores
save_score(learner, activity, score) ==
    Scores' = Append(Scores, <<learner, activity, score>>)
update_guess(new_guess) ==
    Guess' = new_guess /\ written' = [written EXCEPT !.guess = @ + 1]
update_slip(new_slip) ==
    Slip' = new_slip /\ written' = [written EXCEPT !.slip = @ + 1]
update_transit(new_transit) ==
    Transit' = new_transit /\ written' = [written EXCEPT !.transit = @ + 1]
update_prior_mastery(new_prior_mastery) ==
    MasteryPrior' = new_prior_mastery /\ written' = [written EXCEPT !.prior = @ + 1]

(***************************************************************************)
(* BaseAlosiAdaptiveEngine.update_from_score                               *)
(***************************************************************************)
\* the locals of an ended call are dropped
UpdEnd(u, pc, error) ==
    [UpdIdle EXCEPT !.pc = pc, !.error = error, !.learner = u.learner,
         !.activity = u.activity, !.score = u.score, !.read_mastery = u.read_mastery,
         !.wrote_mastery = u.wrote_mastery, !.saved_score = u.saved_score]

\* the second slot serves a call that overlaps one in the first slot
UpdCall(i, learner, activity, score) ==
    /\ Free(upd[i].pc)
    /\ i = 1 \/ ~Free(upd[1].pc)
    /\ MayCall
    /\ calls' = calls + 1
    /\ upd' = [j \in Updaters |->
                  IF j = i
                  THEN [UpdIdle EXCEPT !.pc = "get_learner_mastery", !.learner = learner,
                            !.activity = activity, !.score = score]
                  ELSE Rest(upd[j], UpdIdle)]
    /\ train' = Rest(train, TrainIdle)
    /\ rec' = Rest(rec, RecIdle)
    /\ UNCHANGED <<env, storage, written>>

UpdGetLearnerMastery(i) ==
    /\ upd[i].pc = "get_learner_mastery"
    /\ upd' = [upd EXCEPT ![i].mastery = get_learner_mastery(upd[i].learner),
                          ![i].read_mastery = TRUE,
                          ![i].pc = "get_guess"]
    /\ UNCHANGED <<env, storage, written, train, rec, calls>>

UpdGetGuess(i) ==
    /\ upd[i].pc = "get_guess"
    /\ upd' = [upd EXCEPT ![i].guess = get_guess(upd[i].activity), ![i].pc = "get_slip"]
    /\ UNCHANGED <<env, storage, written, train, rec, calls>>

UpdGetSlip(i) ==
    /\ upd[i].pc = "get_slip"
    /\ upd' = [upd EXCEPT ![i].slip = get_slip(upd[i].activity), ![i].pc = "get_transit"]
    /\ UNCHANGED <<env, storage, written, train, rec, calls>>

\* variant of the step below in which update_from_score goes on to save_score
\* without having written the new mastery
UpdGetTransit_unwritten(i) ==
    /\ upd[i].pc = "get_transit"
    /\ LET transit == get_transit(upd[i].activity)
       IN  upd' = [upd EXCEPT ![i].transit = transit,
                       ![i].new_mastery = calculate_mastery_update(upd[i].mastery,
                            upd[i].score, upd[i].guess, upd[i].slip, transit, EPSILON),
                       ![i].pc = "save_score"]
    /\ UNCHANGED <<env, storage, written, train, rec, calls>>

\* get_transit, then the in-memory calculate_mastery_update
UpdGetTransit(i) ==
    /\ upd[i].pc = "get_transit"
    /\ LET transit == get_transit(upd[i].activity)
       IN  upd' = [upd EXCEPT ![i].transit = transit,
                       ![i].new_mastery = calculate_mastery_update(upd[i].mastery,
                            upd[i].score, upd[i].guess, upd[i].slip, transit, EPSILON),
                       ![i].pc = "update_learner_mastery"]
    /\ UNCHANGED <<env, storage, written, train, rec, calls>>

\* variant of the step below in which the new mastery is recomputed from the
\* mastery stored at the time of the write
UpdUpdateLearnerMastery_reread(i) ==
    /\ upd[i].pc = "update_learner_mastery"
    /\ update_learner_mastery(upd[i].learner,
            calculate_mastery_update(get_learner_mastery(upd[i].learner), upd[i].score,
                                     upd[i].guess, upd[i].slip, upd[i].transit, EPSILON))
    /\ upd' = [upd EXCEPT ![i].wrote_mastery = TRUE, ![i].pc = "save_score"]
    /\ UNCHANGED <<env, Guess, Slip, Transit, MasteryPrior, Scores, train, rec, calls>>

UpdUpdateLearnerMastery(i) ==
    /\ upd[i].pc = "update_learner_mastery"
    /\ update_learner_mastery(upd[i].learner, upd[i].new_mastery)
    /\ upd' = [upd EXCEPT ![i].wrote_mastery = TRUE, ![i].pc = "save_score"]
    /\ UNCHANGED <<env, Guess, Slip, Transit, MasteryPrior, Scores, train, rec, calls>>

UpdSaveScore(i) ==
    /\ upd[i].pc = "save_score"
    /\ save_score(upd[i].learner, upd[i].activity, upd[i].score)
    /\ upd' = [upd EXCEPT ![i] = UpdEnd([upd[i] EXCEPT !.saved_score = TRUE], "returned", "")]
    /\ UNCHANGED <<env, Guess, Slip, Transit, MasteryPrior, Mastery, written, train, rec, calls>>

\* the storage hook about to run raises StorageError: the call ends there
UpdStorageError(i) ==
    /\ ~Free(upd[i].pc)
    /\ upd' = [upd EXCEPT ![i] = UpdEnd(upd[i], "raised", "StorageError")]
    /\ UNCHANGED <<env, storage, written, train, rec, calls>>

(***************************************************************************)
(* BaseAlosiAdaptiveEngine.train                                           *)
(***************************************************************************)
\* the locals of an ended call are dropped; new_params is what train returns
TrainEnd(t, pc) ==
    [TrainIdle EXCEPT !.pc = pc, !.information_threshold = t.information_threshold,
         !.new_params = t.new_params, !.estimated = t.estimated, !.pre = t.pre]

TrainCall(information_threshold) ==
    /\ Free(train.pc)
    /\ MayCall
    /\ calls' = calls + 1
    /\ train' = [TrainIdle EXCEPT !.pc = "get_mastery_prior",
                     !.information_threshold = Rat(information_threshold, 1),
                     !.pre = [guess |-> Guess, slip |-> Slip, transit |-> Transit,
                              prior |-> MasteryPrior]]
    /\ upd' = [j \in Updaters |-> Rest(upd[j], UpdIdle)]
    /\ rec' = Rest(rec, RecIdle)
    /\ UNCHANGED <<env, storage, written>>

TrainGetMasteryPrior ==
    /\ train.pc = "get_mastery_prior"
    /\ train' = [train EXCEPT !.mastery_prior = get_mastery_prior, !.pc = "get_scores"]
    /\ UNCHANGED <<env, storage, written, upd, rec, calls>>

TrainGetScores ==
    /\ train.pc = "get_scores"
    /\ train' = [train EXCEPT !.scores = get_scores, !.pc = "get_guess"]
    /\ UNCHANGED <<env, storage, written, upd, rec, calls>>

TrainGetGuess ==
    /\ train.pc = "get_guess"
    /\ train' = [train EXCEPT !.guess = get_guess(NoActivity), !.pc = "get_slip"]
    /\ UNCHANGED <<env, storage, written, upd, rec, calls>>

TrainGetSlip ==
    /\ train.pc = "get_slip"
    /\ train' = [train EXCEPT !.slip = get_slip(NoActivity), !.pc = "get_transit"]
    /\ UNCHANGED <<env, storage, written, upd, rec, calls>>

\* variant of the step below in which train writes the new transit matrix in
\* the step that computes it, before estimate is known to have returned
TrainGetTransit_writing ==
    /\ train.pc = "get_transit"
    /\ LET transit == get_transit(NoActivity)
           new_params == estimate(train.scores, train.guess, train.slip, transit,
                              train.mastery_prior, RelevanceThresholdDefault,
                              train.information_threshold, TRUE)
       IN  /\ train' = [train EXCEPT !.transit = transit, !.new_params = new_params,
                             !.estimated = TRUE, !.pc = "update_guess"]
           /\ update_transit(new_params.trans)
    /\ UNCHANGED <<env, Guess, Slip, MasteryPrior, Mastery, Scores, upd, rec, calls>>

\* get_transit, then the in-memory estimate with the default relevance_threshold
\* and remove_degeneracy
TrainGetTransit ==
    /\ train.pc = "get_transit"
    /\ LET transit == get_transit(NoActivity)
       IN  train' = [train EXCEPT !.transit = transit,
                         !.new_params = estimate(train.scores, train.guess, train.slip,
                              transit, train.mastery_prior, RelevanceThresholdDefault,
                              train.information_threshold, TRUE),
                         !.estimated = TRUE,
                         !.pc = "update_transit"]
    /\ UNCHANGED <<env, storage, written, upd, rec, calls>>

TrainUpdateTransit ==
    /\ train.pc = "update_transit"
    /\ update_transit(train.new_params.trans)
    /\ train' = [train EXCEPT !.pc = "update_guess"]
    /\ UNCHANGED <<env, Guess, Slip, MasteryPrior, Mastery, Scores, upd, rec, calls>>

TrainUpdateGuess ==
    /\ train.pc = "update_guess"
    /\ update_guess(train.new_params.guess)
    /\ train' = [train EXCEPT !.pc = "update_slip"]
    /\ UNCHANGED <<env, Slip, Transit, MasteryPrior, Mastery, Scores, upd, rec, calls>>

TrainUpdateSlip ==
    /\ train.pc = "update_slip"
    /\ update_slip(train.new_params.slip)
    /\ train' = TrainEnd(train, "returned")
    /\ UNCHANGED <<env, Guess, Transit, MasteryPrior, Mastery, Scores, upd, rec, calls>>

\* the storage hook about to run raises StorageError: the call ends there
TrainStorageError ==
    /\ ~Free(train.pc)
    /\ train' = TrainEnd(train, "raised")
    /\ UNCHANGED <<env, storage, written, upd, rec, calls>>

(***************************************************************************)
(* BaseAlosiAdaptiveEngine.recommend                                       *)
(***************************************************************************)
\* fixed configuration of the backend
DifficultyTable == [q \in Acts |-> Rat(1, 2)]
PrereqTable == [i \in KCs, j \in KCs |-> IF j = i + 1 THEN One ELSE Zero]
r_star == Zero
L_star == Rat(22, 10)
Weights == [W_p |-> Rat(5, 1), W_r |-> Rat(3, 1), W_d |-> Rat(1, 1), W_c |-> Rat(1, 2)]

\* relevance of the learner's last attempted activity, None without an attempt
get_last_attempted_relevance(learner) ==
    LET own == SelectSeq(Scores, LAMBDA r : r[1] = learner)
        q == own[Len(own)][2]
    IN  IF Len(own) = 0 THEN None
        ELSE Some([k \in KCs |-> calculate_relevance_from_odds(Guess[q, k], Slip[q, k])])

\* the locals of an ended call are dropped
RecEnd(r, pc, error, result) ==
    [RecIdle EXCEPT !.pc = pc, !.error = error, !.result = result, !.learner = r.learner,
         !.guess_written = r.guess_written, !.slip_written = r.slip_written,
         !.all_alike = r.all_alike]

\* history: the loaded parameters are the same for every activity, so that
\* every activity has the same recommendation score
AllAlike(params) ==
    \A q \in Acts, k \in KCs :
        /\ IsFin(params.guess[q, k]) /\ params.guess[q, k] = params.guess[0, k]
        /\ IsFin(params.slip[q, k]) /\ params.slip[q, k] = params.slip[0, k]
        /\ params.difficulty[q] = params.difficulty[0]

RecCall(learner) ==
    /\ Free(rec.pc)
    /\ MayCall
    /\ calls' = calls + 1
    /\ rec' = [RecIdle EXCEPT !.pc = "get_guess", !.learner = learner]
    /\ upd' = [j \in Updaters |-> Rest(upd[j], UpdIdle)]
    /\ train' = Rest(train, TrainIdle)
    /\ UNCHANGED <<env, storage, written>>

\* get_recommend_params: 'guess': self.get_guess()
RecGetGuess ==
    /\ rec.pc = "get_guess"
    /\ rec' = [rec EXCEPT !.guess = get_guess(NoActivity), !.guess_written = written.guess,
                          !.pc = "get_slip"]
    /\ UNCHANGED <<env, storage, written, train, upd, calls>>

\* get_recommend_params: 'slip': self.get_slip()
RecGetSlip ==
    /\ rec.pc = "get_slip"
    /\ rec' = [rec EXCEPT !.slip = get_slip(NoActivity), !.slip_written = written.slip,
                          !.pc = "get_params"]
    /\ UNCHANGED <<env, storage, written, train, upd, calls>>

\* the remaining entries of get_recommend_params, then
\* recommendation_score(**recommendation_params) and np.argmax
RecScore ==
    /\ rec.pc = "get_params"
    /\ LET params == [guess |-> rec.guess,
                      slip |-> rec.slip,
                      difficulty |-> DifficultyTable,
                      prereqs |-> PrereqTable,
                      last_attempted_relevance |-> get_last_attempted_relevance(rec.learner),
                      learner_mastery_odds |-> get_learner_mastery(rec.learner),
                      r_star |-> r_star,
                      L_star |-> L_star,
                      W_p |-> Weights.W_p,
                      W_r |-> Weights.W_r,
                      W_d |-> Weights.W_d,
                      W_c |-> Weights.W_c]
           r == [rec EXCEPT !.all_alike = AllAlike(params)]
       IN  IF Binds(DOMAIN params, ScoreParams, ScoreDefaults)
           THEN rec' = RecEnd(r, "returned", "",
                            argmax(recommendation_score(params["relevance"],
                                params.learner_mastery_odds, params.prereqs, params.r_star,
                                params.L_star, params.difficulty, params.W_p, params.W_r,
                                params.W_d, params.W_c,
                                params.last_attempted_relevance).scores))
           ELSE rec' = RecEnd(r, "raised", "TypeError", -1)
    /\ UNCHANGED <<env, storage, written, train, upd, calls>>

\* the storage hook about to run raises StorageError: the call ends there
RecStorageError ==
    /\ ~Free(rec.pc)
    /\ rec' = RecEnd(rec, "raised", "StorageError", -1)
    /\ UNCHANGED <<env, storage, written, train, upd, calls>>

Next ==
    \/ \E i \in Updaters, u \in Learners, q \in Acts, s \in ScoreValues : UpdCall(i, u, q, s)
    \/ \E i \in Updaters : UpdGetLearnerMastery(i)
    \/ \E i \in Updaters : UpdGetGuess(i)
    \/ \E i \in Updaters : UpdGetSlip(i)
    \/ \E i \in Updaters : UpdGetTransit(i)
    \/ \E i \in Updaters : UpdUpdateLearnerMastery(i)
    \/ \E i \in Updaters : UpdSaveScore(i)
    \/ \E i \in Updaters : UpdStorageError(i)
    \/ \E t \in InformationThresholds : TrainCall(t)
    \/ TrainGetMasteryPrior
    \/ TrainGetScores
    \/ TrainGetGuess
    \/ TrainGetSlip
    \/ TrainGetTransit
    \/ TrainUpdateTransit
    \/ TrainUpdateGuess
    \/ TrainUpdateSlip
    \/ TrainStorageError
    \/ \E u \in Learners : RecCall(u)
    \/ RecGetGuess
    \/ RecGetSlip
    \/ RecScore
    \/ RecStorageError

Spec == Init /\ [][Next]_vars

SpecConc == InitConc /\ [][Next]_vars

\* concurrent callers of update_from_score only, all for one learner and with
\* valid scores
ContendedLearners == {0}
ValidScores == {0, 1}

NextUpd ==
    \/ \E i \in Updaters, u \in ContendedLearners, q \in Acts, s \in ValidScores :
           UpdCall(i, u, q, s)
    \/ \E i \in Updaters : UpdGetLearnerMastery(i)
    \/ \E i \in Updaters : UpdGetGuess(i)
    \/ \E i \in Updaters : UpdGetSlip(i)
    \/ \E i \in Updaters : UpdGetTransit(i)
    \/ \E i \in Updaters : UpdUpdateLearnerMastery(i)
    \/ \E i \in Updaters : UpdSaveScore(i)

SpecUpd == InitConc /\ [][NextUpd]_vars

(***************************************************************************)
(* recommendation_score called directly on arrays drawn from small sets    *)
(***************************************************************************)
\* relevance matrices: all zero, all one, and the two with the row of
\* activity 0 set apart
RelevanceChoices ==
    {[q \in Acts, k \in KCs |-> Zero], [q \in Acts, k \in KCs |-> One],
     [q \in Acts, k \in KCs |-> IF q = 0 THEN One ELSE Zero],
     [q \in Acts, k \in KCs |-> IF q = 0 THEN Zero ELSE One]}
MasteryOddsValues == {Rat(1, 2), Rat(3, 1)}
LStarValues == {One}
RStarValues == {Zero, Rat(-1, 1)}
PrereqChoices == {[i \in KCs, j \in KCs |-> Zero],
                  [i \in KCs, j \in KCs |-> IF i <= j THEN One ELSE Zero],
                  [i \in KCs, j \in KCs |-> IF i <= j THEN NaN ELSE One]}
DifficultyChoices == {DifficultyTable, [q \in Acts |-> Rat(q, 1)]}
WeightChoices == {[W_p |-> One, W_r |-> One, W_d |-> One, W_c |-> One], Weights}
\* None, or a vector with at most one entry set (the square root stays rational)
LastChoices == {None} \cup
               {Some([k \in KCs |-> IF k = j THEN v ELSE Zero]) :
                    j \in KCs, v \in {Zero, One, Rat(4, 1)}}

InitScore ==
    /\ InitEngine
    /\ cap = 0
    /\ fn = FnIdle
    /\ pure = PureIdle
    /\ \E relevance \in RelevanceChoices,
          L \in [KCs -> MasteryOddsValues],
          prereqs \in PrereqChoices,
          rs \in RStarValues,
          Ls \in LStarValues,
          difficulty \in DifficultyChoices,
          w \in WeightChoices,
          last \in LastChoices :
            sc = [ScIdle EXCEPT !.pc = "ready", !.relevance = relevance,
                      !.learner_mastery_odds = L, !.prereqs = prereqs, !.r_star = rs,
                      !.L_star = Ls, !.difficulty = difficulty, !.W_p = w.W_p,
                      !.W_r = w.W_r, !.W_d = w.W_d, !.W_c = w.W_c,
                      !.last_attempted_relevance = last]

\* the call; its prereqs argument is the caller's array
ScoreCall ==
    /\ sc.pc = "ready"
    /\ LET out == recommendation_score(sc.relevance, sc.learner_mastery_odds, sc.prereqs,
                      sc.r_star, sc.L_star, sc.difficulty, sc.W_p, sc.W_r, sc.W_d, sc.W_c,
                      sc.last_attempted_relevance)
       IN  sc' = [sc EXCEPT !.pc = "done", !.out = out, !.prereqs = out.prereqs]
    /\ UNCHANGED <<storage, written, train, upd, rec, calls, cap, fn, pure>>

NextScore == ScoreCall

SpecScore == InitScore /\ [][NextScore]_vars

(***************************************************************************)
(* odds and fillna called directly on values drawn from small sets; the    *)
(* arrays handed to fillna are vectors with one entry per activity         *)
(***************************************************************************)
ProbabilityInputs == {Rat(-1, 1), Rat(-1, 2), Zero, Rat(1, 2), One, Rat(3, 2), Rat(2, 1)}
ArrayEntries == {NaN, PInf, NInf, Rat(1, 2)}
FillEntries == {Rat(7, 1), Rat(9, 1)}
ScalarFills == {Scalar(Zero), Scalar(Rat(7, 1))}
ArrayFills == {Array(a) : a \in [Acts -> FillEntries]}

InitFn ==
    /\ InitEngine
    /\ cap = 0
    /\ sc = ScIdle
    /\ pure = PureIdle
    /\ \/ \E p \in ProbabilityInputs :
              fn = [FnIdle EXCEPT !.pc = "ready", !.op = "odds", !.p = p]
       \/ \E x \in [Acts -> ArrayEntries], value \in ScalarFills, inplace \in BOOLEAN :
              fn = [FnIdle EXCEPT !.pc = "ready", !.op = "fillna", !.x = x, !.x0 = x,
                        !.value = value, !.inplace = inplace]
       \/ \E x \in [Acts -> ArrayEntries], value \in ArrayFills, inplace \in BOOLEAN :
              fn = [FnIdle EXCEPT !.pc = "ready", !.op = "fillna", !.x = x, !.x0 = x,
                        !.value = value, !.inplace = inplace]

\* odds(p) with the default epsilon; the function has no raise statement
OddsCall ==
    /\ fn.pc = "ready"
    /\ fn.op = "odds"
    /\ fn' = [fn EXCEPT !.pc = "done", !.odds = odds(fn.p, EPSILON)]
    /\ UNCHANGED <<storage, written, train, upd, rec, calls, cap, sc, pure>>

\* fillna(x, value, inplace); x is the caller's array, x0 what it held before
FillnaCall ==
    /\ fn.pc = "ready"
    /\ fn.op = "fillna"
    /\ fn' = [fn EXCEPT !.pc = "done", !.x = fillna(fn.x, fn.value, fn.inplace).x,
                        !.ret = fillna(fn.x, fn.value, fn.inplace).ret]
    /\ UNCHANGED <<storage, written, train, upd, rec, calls, cap, sc, pure>>

NextFn == OddsCall \/ FillnaCall

SpecFn == InitFn /\ [][NextFn]_vars

(***************************************************************************)
(* calculate_mastery_update called directly on vectors drawn from small    *)
(* sets of odds                                                            *)
(***************************************************************************)
MasteryInputs == {One, Rat(1, 10)}
GuessInputs == {Rat(1, 10), Rat(1, 5), Rat(3, 1)}
SlipInputs == {Rat(1, 10), Rat(1, 2), Rat(2, 1)}
TransitInputs == {Zero, Rat(1, 2)}

InitMastery ==
    /\ InitEngine
    /\ cap = 0
    /\ sc = ScIdle
    /\ fn = FnIdle
    /\ \E mastery \in [KCs -> MasteryInputs], score \in ValidScores,
          guess \in [KCs -> GuessInputs], slip \in [KCs -> SlipInputs],
          transit \in [KCs -> TransitInputs] :
            pure = [PureIdle EXCEPT !.pc = "ready", !.op = "calculate_mastery_update",
                        !.mastery = mastery, !.score = score, !.guess_row = guess,
                        !.slip_row = slip, !.transit_row = transit]

\* calculate_mastery_update with the default epsilon
MasteryCall ==
    /\ pure.pc = "ready"
    /\ pure.op = "calculate_mastery_update"
    /\ pure' = [pure EXCEPT !.pc = "done",
                    !.new_mastery = calculate_mastery_update(pure.mastery, pure.score,
                                        pure.guess_row, pure.slip_row, pure.transit_row,
                                        EPSILON)]
    /\ UNCHANGED <<storage, written, train, upd, rec, calls, cap, sc, fn>>

NextMastery == MasteryCall

SpecMastery == InitMastery /\ [][NextMastery]_vars

(***************************************************************************)
(* knowledge called directly on the chronologically ordered score rows of  *)
(* one learner and full guess and slip matrices.                           *)
(***************************************************************************)
AttemptRows == {<<0, q, s>> : q \in Acts, s \in ValidScores}
AttemptSeqs == UNION {[1..n -> AttemptRows] : n \in 0..MaxAttempts}
KnowledgeGuesses ==
    {[q \in Acts, k \in KCs |-> v] : v \in {Rat(1, 4), One, Rat(4, 1)}}
        \cup {[q \in Acts, k \in KCs |-> IF (q + k) % 2 = 0 THEN Rat(1, 4) ELSE Rat(1, 2)],
              NoMatrix}
KnowledgeSlips ==
    {[q \in Acts, k \in KCs |-> Rat(1, 4)],
     [q \in Acts, k \in KCs |-> IF (q + k) % 2 = 0 THEN Rat(1, 2) ELSE Rat(1, 4)]}

InitKnow ==
    /\ InitEngine
    /\ cap = 0
    /\ sc = ScIdle
    /\ fn = FnIdle
    /\ \E scores \in AttemptSeqs, guess \in KnowledgeGuesses, slip \in KnowledgeSlips :
          pure = [PureIdle EXCEPT !.pc = "ready", !.op = "knowledge",
                      !.score_records = scores, !.guess = guess, !.slip = slip]

KnowledgeCall ==
    /\ pure.pc = "ready"
    /\ pure.op = "knowledge"
    /\ pure' = [pure EXCEPT !.pc = "done",
                    !.knowl = knowledge(pure.score_records, pure.guess, pure.slip)]
    /\ UNCHANGED <<storage, written, train, upd, rec, calls, cap, sc, fn>>

NextKnow == KnowledgeCall

SpecKnow == InitKnow /\ [][NextKnow]_vars

(***************************************************************************)
(* estimate called directly on score records of learner 0 and a choice of  *)
(* current parameters, with the default relevance_threshold.               *)
(***************************************************************************)
EstimateRows == {<<0, 0, 0>>, <<0, 0, 1>>, <<0, 1, 1>>}
EstimateRecords == UNION {[1..n -> EstimateRows] : n \in 0..MaxAttempts}
\* current guess and slip odds, the same in every cell: 1 (relevance 0) or 1/4
EstimateParams == {[q \in Acts, k \in KCs |-> v] : v \in {One, Rat(1, 4)}}
EstimateThresholds == {Rat(1, 2), One}

InitEst ==
    /\ InitEngine
    /\ cap = 0
    /\ sc = ScIdle
    /\ fn = FnIdle
    /\ \E score_records \in EstimateRecords, params \in EstimateParams,
          information_threshold \in EstimateThresholds, remove_degeneracy \in BOOLEAN :
            pure = [PureIdle EXCEPT !.pc = "ready", !.op = "estimate",
                        !.score_records = score_records, !.guess = params, !.slip = params,
                        !.transit = TransitTable, !.mastery_prior = PriorTable,
                        !.information_threshold = information_threshold,
                        !.remove_degeneracy = remove_degeneracy]

EstimateCall ==
    /\ pure.pc = "ready"
    /\ pure.op = "estimate"
    /\ pure' = [pure EXCEPT !.pc = "done",
                    !.new_params = estimate(pure.score_records, pure.guess, pure.slip,
                                       pure.transit, pure.mastery_prior,
                                       RelevanceThresholdDefault,
                                       pure.information_threshold, pure.remove_degeneracy)]
    /\ UNCHANGED <<storage, written, train, upd, rec, calls, cap, sc, fn>>

NextEst == EstimateCall

SpecEst == InitEst /\ [][NextEst]_vars

(***************************************************************************)
(* Properties                                                              *)
(***************************************************************************)
PosFinite(a) == \A i \in DOMAIN a : IsFin(a[i]) /\ Sgn(a[i]) > 0
NonNegFinite(a) == \A i \in DOMAIN a : IsFin(a[i]) /\ Sgn(a[i]) >= 0

\* C1: when a storage write fails during train, the stored guess, slip,
\* transit and prior mastery are all the pre-call values or all the newly
\* estimated ones, never a mixture.
C1_TrainWritebackAllOrNothing ==
    train.pc = "raised" =>
        \/ /\ Guess = train.pre.guess
           /\ Slip = train.pre.slip
           /\ Transit = train.pre.transit
           /\ MasteryPrior = train.pre.prior
        \/ /\ train.estimated
           /\ Guess = train.new_params.guess
           /\ Slip = train.new_params.slip
           /\ Transit = train.new_params.trans
           /\ MasteryPrior = train.new_params.L_i

\* C2: a recommend that overlaps a train loads a guess matrix and a slip
\* matrix of the same generation: both as they were before the train's
\* writeback or both as the train wrote them.
C2_RecommendLoadsOneGeneration ==
    (rec.pc = "get_params" /\ train.pc # "raised") =>
        rec.guess_written = rec.slip_written

\* C3: after train has returned, every stored guess, slip and transit odds
\* value is finite and strictly positive, given that they were so before.
C3_TrainedParamsFinitePositive ==
    (/\ train.pc = "returned"
     /\ PosFinite(train.pre.guess)
     /\ PosFinite(train.pre.slip)
     /\ PosFinite(train.pre.transit)) =>
        PosFinite(Guess) /\ PosFinite(Slip) /\ PosFinite(Transit)

\* C4: the mastery vector that update_from_score writes for a learner has
\* every entry within [EPSILON, 1/EPSILON], for a score in [0, 1], positive
\* finite prior mastery, guess and slip odds and non-negative transit odds.
C4_WrittenMasteryWithinBounds ==
    \A i \in Updaters :
        (/\ upd[i].pc = "save_score"
         /\ upd[i].score \in 0..1
         /\ PosFinite(upd[i].mastery)
         /\ PosFinite(upd[i].guess)
         /\ PosFinite(upd[i].slip)
         /\ NonNegFinite(upd[i].transit)) =>
            \A k \in KCs :
                /\ Le(EPSILON, Mastery[upd[i].learner][k])
                /\ Le(Mastery[upd[i].learner][k], Div(One, EPSILON))

\* C5: within update_from_score the mastery is read before either write and
\* the new mastery is written before the score record is appended: no score
\* record of a call is stored while its mastery update is unwritten.
C5_MasteryWrittenBeforeScoreSaved ==
    \A i \in Updaters :
        /\ upd[i].saved_score => upd[i].wrote_mastery
        /\ upd[i].wrote_mastery => upd[i].read_mastery
        /\ upd[i].pc = "save_score" =>
              /\ upd[i].wrote_mastery
              /\ Mastery[upd[i].learner] = upd[i].new_mastery

\* C5 witness: an update has returned after appending its score record
C5_UpdateReturned ==
    \E i \in Updaters :
        /\ upd[i].pc = "returned"
        /\ upd[i].saved_score
        /\ upd[i].wrote_mastery
        /\ \E n \in DOMAIN Scores :
              Scores[n] = <<upd[i].learner, upd[i].activity, upd[i].score>>

\* C6: with a backend whose hooks do not fail, recommend completes without
\* error and returns an activity index in [0, Q).
C6_RecommendReturnsActivity ==
    (rec.pc \in {"returned", "raised"} /\ rec.error # "StorageError") =>
        /\ rec.pc = "returned"
        /\ rec.result \in Acts

\* C7: when several activities share the maximum recommendation score,
\* recommend chooses the lowest index among them; in particular it chooses
\* activity 0 when every activity has the same parameters and so the same score.
C7_TieChoosesLowestIndex ==
    (/\ rec.pc \in {"returned", "raised"}
     /\ rec.error # "StorageError"
     /\ rec.all_alike) =>
        rec.result = 0

\* C8: the score recommendation_score gives an activity is
\* W_p*P + W_r*R + W_c*C + W_d*D: each weight multiplies its own subscore.
C8_WeightsMultiplyOwnSubscores ==
    sc.pc = "done" =>
        \A q \in Acts :
            LET expected == Add(Add(Mul(sc.W_p, sc.out.P[q]), Mul(sc.W_r, sc.out.R[q])),
                                Add(Mul(sc.W_c, sc.out.C[q]), Mul(sc.W_d, sc.out.D[q])))
            IN  \/ Eq(sc.out.scores[q], expected)
                \/ isnan(sc.out.scores[q]) /\ isnan(expected)

\* C9: after train has returned, the stored prior mastery is the newly
\* estimated initial mastery L_i.
C9_TrainReplacesPriorMastery ==
    train.pc = "returned" => MasteryPrior = train.new_params.L_i

\* C10: update_from_score with a score outside [0, 1] is rejected with
\* ValidationError and changes neither the mastery nor the score records.
C10_InvalidScoreRejected ==
    \A i \in Updaters :
        (upd[i].pc # "idle" /\ upd[i].score \notin 0..1) =>
            /\ ~upd[i].wrote_mastery
            /\ ~upd[i].saved_score
            /\ upd[i].pc # "returned"
            /\ (upd[i].pc = "raised" /\ upd[i].error # "StorageError") =>
                  upd[i].error = "ValidationError"

\* C11: train performs no storage write before estimate has returned: every
\* step of a train call that has not yet got its estimate, a failing read or a
\* cancellation included, leaves the stored guess, slip, transit, mastery
\* prior, mastery and score records unchanged.
C11_TrainNoWriteBeforeEstimate ==
    [][(~train.estimated /\ train' # train) => UNCHANGED storage]_vars

\* C11 witness: a train call has failed in one of its reads, after scores were
\* recorded, and the stored parameters are those it found
C11_TrainFailedBeforeEstimate ==
    /\ train.pc = "raised"
    /\ ~train.estimated
    /\ Len(Scores) > 0
    /\ Guess = train.pre.guess
    /\ Slip = train.pre.slip
    /\ Transit = train.pre.transit
    /\ MasteryPrior = train.pre.prior

\* the accumulated numerators and denominators of the estimate a train call
\* has just computed from its locals
TrainSums ==
    estimate_sums(estimate_users(train.scores, train.guess, train.slip,
                                 RelevanceThresholdDefault))

\* at every cell whose denominator is below the threshold the returned array
\* holds the current value and the diagnostic view holds NaN
FallsBack(den, threshold, ret, ret_nan, current) ==
    \A i \in DOMAIN den :
        Lt(den[i], threshold) => (Eq(ret[i], current[i]) /\ isnan(ret_nan[i]))

\* C12: for every estimator cell (q,k) whose accumulated denominator is below
\* information_threshold, the guess, slip and transit matrices returned by
\* estimate equal the current matrices at that cell, while the *_nan views
\* hold NaN there.
C12_BelowThresholdKeepsCurrent ==
    (train.pc = "update_transit" /\ PosFinite(train.guess) /\ PosFinite(train.slip)
         /\ PosFinite(train.transit)) =>
        /\ FallsBack(TrainSums.guess_denom, train.information_threshold,
                     train.new_params.guess, train.new_params.guess_nan, train.guess)
        /\ FallsBack(TrainSums.slip_denom, train.information_threshold,
                     train.new_params.slip, train.new_params.slip_nan, train.slip)
        /\ FallsBack(TrainSums.trans_denom, train.information_threshold,
                     train.new_params.trans, train.new_params.trans_nan, train.transit)

\* C13: train on an empty score set is idempotent: the guess, slip and transit
\* matrices it returns and writes back are identical to the current matrices,
\* so the stored parameters are unchanged.
C13_EmptyTrainIdempotent ==
    (train.pc = "returned" /\ Len(Scores) = 0) =>
        /\ train.new_params.guess = train.pre.guess
        /\ train.new_params.slip = train.pre.slip
        /\ train.new_params.trans = train.pre.transit
        /\ Guess = train.pre.guess
        /\ Slip = train.pre.slip
        /\ Transit = train.pre.transit

\* C14: the score records only grow: a step changes them only by appending
\* the record (u, q, s) of an update_from_score(u, q, s) after all existing
\* records, every update_from_score that returns has appended its record in
\* its last step, and no step of recommend or train changes the records.
C14_ScoresAppendOnly ==
    [][ /\ Scores' # Scores =>
               \E i \in Updaters :
                   /\ upd[i].pc = "save_score"
                   /\ upd'[i].pc = "returned"
                   /\ Scores' = Append(Scores, <<upd[i].learner, upd[i].activity,
                                                 upd[i].score>>)
        /\ \A j \in Updaters :
               (upd[j].pc # "returned" /\ upd'[j].pc = "returned") =>
                   /\ Len(Scores') = Len(Scores) + 1
                   /\ SubSeq(Scores', 1, Len(Scores)) = Scores ]_vars

\* C14 witness: a second update has returned and its record is the last of
\* two, behind a different earlier record
C14_SecondRecordAppended ==
    \E i \in Updaters :
        /\ upd[i].pc = "returned"
        /\ Len(Scores) = 2
        /\ Scores[2] = <<upd[i].learner, upd[i].activity, upd[i].score>>
        /\ Scores[1] # Scores[2]

\* C15: stored Mastery[v] changes only in update_from_score(v, ., .): a step
\* that changes the mastery of learner v is the mastery write of an
\* update_from_score call for v, so recommend and train leave every learner's
\* mastery unchanged and an update for u leaves the mastery of v # u unchanged.
C15_MasteryChangedOnlyByOwnUpdate ==
    [][ \A v \in Learners :
            Mastery'[v] # Mastery[v] =>
                \E i \in Updaters :
                    /\ upd[i].pc = "update_learner_mastery"
                    /\ upd[i].learner = v
                    /\ upd'[i].wrote_mastery ]_vars

\* C15 witness: an update for one learner has written a new mastery while
\* another learner's mastery is as constructed, and a train has run since
C15_OneLearnerUpdated ==
    \E u \in Learners, v \in Learners :
        /\ u # v
        /\ Mastery[u] # MasteryTable[u]
        /\ Mastery[v] = MasteryTable[v]
        /\ train.pc = "returned"

\* the mastery update of vector m for the score record r, with the stored
\* parameters of the record's activity
Applied(m, r) ==
    calculate_mastery_update(m, r[3], Row(Guess, r[2]), Row(Slip, r[2]), Row(Transit, r[2]),
                             EPSILON)

\* C16: nothing serializes two update_from_score calls for one learner: the
\* mastery a call writes is the update of the mastery it read at its start,
\* whatever has been written since, so when both calls read before either
\* writes, the stored mastery reflects only one of the two scores.
C16_WriteFromOwnRead ==
    [][ \A i \in Updaters :
            (upd[i].pc = "update_learner_mastery" /\ upd'[i].pc = "save_score") =>
                Mastery'[upd[i].learner] =
                    calculate_mastery_update(upd[i].mastery, upd[i].score, upd[i].guess,
                                             upd[i].slip, upd[i].transit, EPSILON) ]_vars

\* C16 witness: two interleaved updates of one learner have both appended
\* their score records, and the stored mastery is the update for one of the
\* scores alone: it differs from both orders of applying the two updates
C16_LostUpdate ==
    /\ calls = 2
    /\ \A i \in Updaters : upd[i].pc = "returned" /\ upd[i].saved_score
    /\ Len(Scores) = 2
    /\ Scores[1][1] = Scores[2][1]
    /\ Mastery[Scores[1][1]] \in {Applied(MasteryTable[Scores[1][1]], Scores[1]),
                                   Applied(MasteryTable[Scores[1][1]], Scores[2])}
    /\ Mastery[Scores[1][1]] #
           Applied(Applied(MasteryTable[Scores[1][1]], Scores[1]), Scores[2])
    /\ Mastery[Scores[1][1]] #
           Applied(Applied(MasteryTable[Scores[1][1]], Scores[2]), Scores[1])

\* C17: odds(p) fails with a NumericDomainError when p is negative or greater
\* than 1 and the caller has not opted into clipping; it does not silently
\* clip such a p into [epsilon, 1-epsilon].
C17_OddsRejectsOutOfDomain ==
    (fn.pc = "done" /\ fn.op = "odds" /\ (Lt(fn.p, Zero) \/ Gt(fn.p, One))) =>
        fn.error = "NumericDomainError"

\* x with its NaN, +Inf and -Inf entries replaced by the fill
Filled(x, value) ==
    [i \in DOMAIN x |->
        IF IsFin(x[i]) THEN x[i] ELSE IF value.isscalar THEN value.v ELSE value.v[i]]

\* C18: fillna honours its inplace flag: with inplace=false the input array
\* is left unchanged and a new array is returned; with inplace=true the input
\* array itself has its NaN/Inf entries replaced and nothing is returned.
C18_FillnaHonoursInplace ==
    (fn.pc = "done" /\ fn.op = "fillna") =>
        IF fn.inplace
        THEN fn.x = Filled(fn.x0, fn.value) /\ fn.ret = None
        ELSE fn.x = fn.x0 /\ fn.ret = Some(Filled(fn.x0, fn.value))

\* C19: the array produced by fillna(x, fill) equals x at every position
\* where x was finite and equals fill (the scalar, or fill's element at that
\* position) at every position where x was NaN, +Inf or -Inf.
C19_FillnaResult ==
    (fn.pc = "done" /\ fn.op = "fillna" /\ ~fn.inplace) =>
        /\ ~fn.ret.none
        /\ \A i \in DOMAIN fn.x0 :
              fn.ret.a[i] = (IF IsFin(fn.x0[i]) THEN fn.x0[i]
                             ELSE IF fn.value.isscalar THEN fn.value.v ELSE fn.value.v[i])

\* C19 witness: fillna has returned an array for an input with an infinite
\* entry, filled from an array, and a finite entry, kept
C19_FilledAndKept ==
    /\ fn.pc = "done"
    /\ fn.op = "fillna"
    /\ ~fn.inplace
    /\ ~fn.value.isscalar
    /\ \E i \in DOMAIN fn.x0, j \in DOMAIN fn.x0 :
          /\ isinf(fn.x0[i])
          /\ fn.ret.a[i] = fn.value.v[i]
          /\ IsFin(fn.x0[j])
          /\ fn.ret.a[j] = fn.x0[j]

\* the per-learner pass of the estimate a train call has just computed from
\* its locals
TrainUsers ==
    estimate_users(train.scores, train.guess, train.slip, RelevanceThresholdDefault)

\* the score records of learner u, in their original order
LearnerRows(records, u) == SelectSeq(records, LAMBDA r : r[1] = u)

\* the pass for learner u went over exactly the given rows
UsesRows(U, u, rows) ==
    /\ U.J[u] = Len(rows)
    /\ \A j \in 1..Len(rows) :
          j <= U.J[u] => (U.act[u][j] = rows[j][2] /\ U.sc[u][j] = Rat(rows[j][3], 1))

\* C20: for each learner u appearing in the score records, estimate's
\* per-learner pass uses exactly the rows whose learner id (column 0) equals
\* u, in their original chronological order, and no other rows.
C20_PassUsesLearnersOwnRows ==
    train.pc = "update_transit" =>
        \A u \in {train.scores[i][1] : i \in 1..Len(train.scores)} :
            UsesRows(TrainUsers, u, LearnerRows(train.scores, u))

\* C23 as stated: for a score of 0, on every KC where slip < 1 and
\* transit = 0 the new mastery odds are less than or equal to the old ones,
\* for every positive guess and every positive prior mastery.
C23_ZeroScoreNeverRaisesMastery ==
    (pure.pc = "done" /\ pure.op = "calculate_mastery_update" /\ pure.score = 0) =>
        \A k \in KCs :
            (Lt(pure.slip_row[k], One) /\ Eq(pure.transit_row[k], Zero)) =>
                Le(pure.new_mastery[k], pure.mastery[k])

\* C23 amended: for a score of 0, on every KC where slip < 1,
\* guess * slip <= 1 and transit = 0 the new mastery odds are less than or
\* equal to the old ones, for every positive prior mastery.
C23_ZeroScoreLowersMasteryWhenNotDegenerate ==
    (pure.pc = "done" /\ pure.op = "calculate_mastery_update" /\ pure.score = 0) =>
        \A k \in KCs :
            (/\ Lt(pure.slip_row[k], One)
             /\ Le(Mul(pure.guess_row[k], pure.slip_row[k]), One)
             /\ Eq(pure.transit_row[k], Zero)) =>
                Le(pure.new_mastery[k], pure.mastery[k])

\* C23 witness: a score of 0 without transfer has strictly lowered a mastery
C23_MasteryLowered ==
    /\ pure.pc = "done"
    /\ pure.op = "calculate_mastery_update"
    /\ pure.score = 0
    /\ \E k \in KCs :
          /\ Lt(pure.slip_row[k], One)
          /\ Le(Mul(pure.guess_row[k], pure.slip_row[k]), One)
          /\ Eq(pure.transit_row[k], Zero)
          /\ Lt(pure.new_mastery[k], pure.mastery[k])

\* |x - y| <= 1e-6
Within1e6(x, y) == Le(AbsNum(Sub(x, y)), Rat(1, 1000000))

\* L * (1 + guess) / (guess * (1 + slip))
PerfectScoreUpdate(L, guess, slip) == Div(Mul(L, Add(One, guess)), Mul(guess, Add(One, slip)))

\* C24 as stated: for a perfect score with transit = 0 the result is
\* L*(1+guess)/(guess*(1+slip)) element-wise, and for L = 1.0 and slip = 0.1
\* it is 11.0 where guess = 0.1 and 5.5 where guess = 0.2, within 1e-6.
C24_PerfectScoreExample ==
    (pure.pc = "done" /\ pure.op = "calculate_mastery_update" /\ pure.score = 1) =>
        \A k \in KCs :
            Eq(pure.transit_row[k], Zero) =>
                /\ Eq(pure.new_mastery[k],
                      PerfectScoreUpdate(pure.mastery[k], pure.guess_row[k], pure.slip_row[k]))
                /\ (pure.mastery[k] = One /\ pure.slip_row[k] = Rat(1, 10)) =>
                      /\ pure.guess_row[k] = Rat(1, 10) =>
                            Within1e6(pure.new_mastery[k], Rat(11, 1))
                      /\ pure.guess_row[k] = Rat(1, 5) =>
                            Within1e6(pure.new_mastery[k], Rat(11, 2))

\* C24 amended: for a perfect score with transit = 0 the result is
\* L*(1+guess)/(guess*(1+slip)) element-wise, and for L = 1.0 and slip = 0.1
\* it is 10.0 where guess = 0.1 and 60/11 = 5.454545... where guess = 0.2,
\* within 1e-6.
C24_PerfectScoreFormula ==
    (pure.pc = "done" /\ pure.op = "calculate_mastery_update" /\ pure.score = 1) =>
        \A k \in KCs :
            Eq(pure.transit_row[k], Zero) =>
                /\ Eq(pure.new_mastery[k],
                      PerfectScoreUpdate(pure.mastery[k], pure.guess_row[k], pure.slip_row[k]))
                /\ (pure.mastery[k] = One /\ pure.slip_row[k] = Rat(1, 10)) =>
                      /\ pure.guess_row[k] = Rat(1, 10) =>
                            Within1e6(pure.new_mastery[k], Rat(10, 1))
                      /\ pure.guess_row[k] = Rat(1, 5) =>
                            Within1e6(pure.new_mastery[k], Rat(5454545, 1000000))

\* C24 witness: the perfect-score update of L = 1.0 with guess = 0.2 and
\* slip = 0.1 and no transfer has given 60/11
C24_ExampleComputed ==
    /\ pure.pc = "done"
    /\ pure.op = "calculate_mastery_update"
    /\ pure.score = 1
    /\ \E k \in KCs :
          /\ pure.mastery[k] = One
          /\ pure.guess_row[k] = Rat(1, 5)
          /\ pure.slip_row[k] = Rat(1, 10)
          /\ Eq(pure.transit_row[k], Zero)
          /\ pure.new_mastery[k] = Rat(60, 11)

\* every mastery entry is at least L_star and the prerequisite matrix, as
\* the scorer used it, is all zero
MasteredWithoutPrereqs ==
    /\ \A k \in KCs : Ge(sc.learner_mastery_odds[k], sc.L_star)
    /\ \A i \in KCs, j \in KCs : Eq(sc.prereqs[i, j], Zero)

\* C25 as stated: when every mastery entry is at least L_star and the
\* prerequisite matrix is all zero, the Readiness sub-score P is the zero
\* vector for every relevance matrix and every r_star <= 0.
C25_ReadinessZeroForAnyRStar ==
    (sc.pc = "done" /\ MasteredWithoutPrereqs /\ Le(sc.r_star, Zero)) =>
        \A q \in Acts : Eq(sc.out.P[q], Zero)

\* C25 amended: when every mastery entry is at least L_star and the
\* prerequisite matrix is all zero, the Readiness sub-score P is the zero
\* vector for every relevance matrix when r_star = 0.
C25_ReadinessZeroForZeroRStar ==
    (sc.pc = "done" /\ MasteredWithoutPrereqs /\ Eq(sc.r_star, Zero)) =>
        \A q \in Acts : Eq(sc.out.P[q], Zero)

\* C25 witness: the scorer has given a zero Readiness vector for a mastered
\* learner, no prerequisites, r_star = 0 and a relevance matrix that is not zero
C25_ReadinessZero ==
    /\ sc.pc = "done"
    /\ MasteredWithoutPrereqs
    /\ Eq(sc.r_star, Zero)
    /\ \E q \in Acts, k \in KCs : ~Eq(sc.relevance[q, k], Zero)
    /\ \A q \in Acts : Eq(sc.out.P[q], Zero)

\* C26: when the last-attempted relevance is null, recommendation_score_C
\* returns the all-zero vector of length Q for every relevance matrix, so
\* the final score of every activity is made of the other three sub-scores.
C26_ContinuityZeroWithoutHistory ==
    (sc.pc = "done" /\ sc.last_attempted_relevance.none) =>
        \A q \in Acts :
            /\ sc.out.C[q] = Zero
            /\ \E w \in {sc.W_d, sc.W_c} :
                  Eq(sc.out.scores[q],
                     Add(Add(Mul(sc.W_p, sc.out.P[q]), Mul(sc.W_r, sc.out.R[q])),
                         Mul(w, sc.out.D[q])))

\* C26 witness: the scorer has run without a last attempt on a relevance
\* matrix that is not zero, and the Continuity vector is zero
C26_ScoredWithoutHistory ==
    /\ sc.pc = "done"
    /\ sc.last_attempted_relevance.none
    /\ \E q \in Acts, k \in KCs : ~Eq(sc.relevance[q, k], Zero)
    /\ \A q \in Acts : sc.out.C[q] = Zero

ScoreRecordsOf(u) == Cardinality({n \in DOMAIN Scores : Scores[n][1] = u})

\* C29 as stated: once no update_from_score is in progress, the number of
\* mastery updates applied to a learner equals the number of score records
\* stored for the learner, also after calls in which save_score has failed.
C29_UpdatesMatchScoreRecords ==
    (\A i \in Updaters : Free(upd[i].pc)) =>
        \A u \in Learners : written.mastery[u] = ScoreRecordsOf(u)

\* C29 amended: the number of score records stored for a learner never
\* exceeds the number of mastery updates applied to the learner, also after
\* calls in which a storage hook has failed.
C29_ScoreRecordsWithinUpdates ==
    \A u \in Learners : ScoreRecordsOf(u) <= written.mastery[u]

\* C29 witness: save_score has failed after the mastery was written, and the
\* learner has one more mastery update than score records
C29_SaveScoreFailed ==
    \E i \in Updaters :
        /\ upd[i].pc = "raised"
        /\ upd[i].error = "StorageError"
        /\ upd[i].wrote_mastery
        /\ ~upd[i].saved_score
        /\ written.mastery[upd[i].learner] = ScoreRecordsOf(upd[i].learner) + 1

\* the product of the values of f
RECURSIVE ProdFn(_)
ProdFn(f) ==
    IF DOMAIN f = {} THEN One
    ELSE LET i == CHOOSE j \in DOMAIN f : TRUE
         IN  Mul(f[i], ProdFn([j \in (DOMAIN f) \ {i} |-> f[j]]))

\* exp(-z[n, k]) for the cost z[n, k] = sum over i < n of c_i * mg[i, k] plus
\* sum over i >= n of (1 - c_i) * ms[i, k], with mg = -log guess and
\* ms = -log slip on the attempted activities: the product of guess^c_i over
\* the attempts before n and of slip^(1 - c_i) over the attempts from n on
CostLikelihood(scores, guess, slip) ==
    [n \in 0..Len(scores), k \in KCs |->
        ProdFn([i \in 1..Len(scores) |->
                   IF i <= n
                   THEN power(guess[scores[i][2], k], scores[i][3])
                   ELSE power(slip[scores[i][2], k], 1 - scores[i][3])])]

\* the rows that minimise column k of z, that is maximise exp(-z)
Minimisers(N, e, k) == {i \in 0..N : \A j \in 0..N : Ge(e[i, k], e[j, k])}

\* the step indicator of row i at the attempt with 0-based index n
StepIndicator(N, i, n) == IF i = 0 \/ (i < N /\ n >= i) THEN One ELSE Zero

\* the uniform average of the step indicators of the rows in I
StepAverage(N, I, n) == Div(SumFn([i \in I |-> StepIndicator(N, i, n)]), Rat(Cardinality(I), 1))

\* knowledge has returned for guess and slip matrices of positive finite odds
KnowledgeDone ==
    /\ pure.pc = "done"
    /\ pure.op = "knowledge"
    /\ PosFinite(pure.guess)
    /\ PosFinite(pure.slip)

\* C22: for every score sequence of length N and every KC k, with positive
\* finite guess and slip, column k of the matrix returned by knowledge is the uniform average, over all rows i
\* that minimise column k of the cost matrix z, of the step indicators (all
\* ones for i = 0, ones on attempts [i, N) for 0 < i < N, zeros for i = N).
C22_KnowledgeAveragesMinimisers ==
    KnowledgeDone =>
        \A n \in 1..Len(pure.score_records), k \in KCs :
            Eq(pure.knowl[n, k],
               StepAverage(Len(pure.score_records),
                           Minimisers(Len(pure.score_records),
                                      CostLikelihood(pure.score_records, pure.guess,
                                                     pure.slip), k),
                           n - 1))

\* C22 witness: knowledge has returned an entry strictly between 0 and 1,
\* the average over several minimising rows
C22_TieAveraged ==
    /\ KnowledgeDone
    /\ \E n \in 1..Len(pure.score_records), k \in KCs :
          Lt(Zero, pure.knowl[n, k]) /\ Lt(pure.knowl[n, k], One)

\* C30: for every score sequence and every KC k, with positive finite guess
\* and slip, each entry of the matrix returned by knowledge lies in [0, 1] and column k does not decrease from
\* one attempt to the next.
C30_KnowledgeMonotoneInUnitInterval ==
    KnowledgeDone =>
        \A k \in KCs :
            /\ \A n \in 1..Len(pure.score_records) :
                  Le(Zero, pure.knowl[n, k]) /\ Le(pure.knowl[n, k], One)
            /\ \A n \in 1..(Len(pure.score_records) - 1) :
                  Le(pure.knowl[n, k], pure.knowl[n + 1, k])

\* C30 witness: knowledge has returned a column that rises from one attempt
\* to the next
C30_KnowledgeRises ==
    /\ KnowledgeDone
    /\ \E k \in KCs, n \in 1..(Len(pure.score_records) - 1) :
          Lt(pure.knowl[n, k], pure.knowl[n + 1, k])

\* the relevance of cell (q, k) under the current guess and slip parameters
\* does not exceed the relevance_threshold, whether the parameters are read
\* as the stored odds or as probabilities
IrrelevantNow(q, k) ==
    /\ ~Lt(calculate_relevance_from_odds(pure.guess[q, k], pure.slip[q, k]),
           RelevanceThresholdDefault)
    /\ ~Lt(calculate_relevance(pure.guess[q, k], pure.slip[q, k]),
           RelevanceThresholdDefault)

\* C21: estimate takes the relevance from the current guess and slip that
\* are passed in, so no attempt contributes to the guess, slip or transit
\* accumulators of a cell (q, k) whose relevance under the current
\* parameters does not exceed relevance_threshold: the cell gets no new
\* estimate.
C21_IrrelevantCellsGetNoEstimate ==
    (pure.pc = "done" /\ pure.op = "estimate") =>
        \A q \in Acts, k \in KCs :
            IrrelevantNow(q, k) =>
                /\ isnan(pure.new_params.guess_nan[q, k])
                /\ isnan(pure.new_params.slip_nan[q, k])
                /\ isnan(pure.new_params.trans_nan[q, k])

\* the guess and slip probabilities estimate has before it removes the
\* degenerate ones
EstimatedProbabilities ==
    estimate_normalize(
        estimate_sums(estimate_users(pure.score_records, pure.guess, pure.slip,
                                     RelevanceThresholdDefault)),
        pure.information_threshold)

Degenerate(S, i) == Ge(Add(S.guess[i], S.slip[i]), One)

\* C27: with remove_degeneracy set, estimate returns and every cell whose
\* estimated guess probability is at least 0.5, or whose estimated guess and
\* slip probabilities sum to at least 1, has NaN in guess_nan; likewise
\* every cell with slip at least 0.5 or guess + slip at least 1 has NaN in
\* slip_nan.
C27_DegenerateEstimatesSuppressed ==
    (pure.op = "estimate" /\ pure.pc = "done" /\ pure.remove_degeneracy) =>
        \A q \in Acts, k \in KCs :
            /\ (Ge(EstimatedProbabilities.guess[q, k], Rat(1, 2))
                    \/ Degenerate(EstimatedProbabilities, <<q, k>>)) =>
                  isnan(pure.new_params.guess_nan[q, k])
            /\ (Ge(EstimatedProbabilities.slip[q, k], Rat(1, 2))
                    \/ Degenerate(EstimatedProbabilities, <<q, k>>)) =>
                  isnan(pure.new_params.slip_nan[q, k])

\* C27 witness: estimate has returned with a cell whose estimated slip
\* probability is below 0.5 and is suppressed because guess + slip reaches 1
C27_SlipSuppressedBySum ==
    /\ pure.op = "estimate"
    /\ pure.pc = "done"
    /\ pure.remove_degeneracy
    /\ \E q \in Acts, k \in KCs :
          /\ Lt(EstimatedProbabilities.slip[q, k], Rat(1, 2))
          /\ Degenerate(EstimatedProbabilities, <<q, k>>)
          /\ isnan(pure.new_params.slip_nan[q, k])

====
